---- MODULE Spec2Model ----
(***************************************************************************)
(* Model of the arrutil macros (src/src/lib.rs): reinterpreting a slice as *)
(* a reference to a fixed-size array, splitting a slice into an array and  *)
(* the rest, and scanning a slice cursor forward by fixed-size chunks.     *)
(*                                                                         *)
(* Memory is one caller-owned buffer `buf`; position p (0-based) holds     *)
(* buf[p + 1].  A slice (&[T], &mut [T]) is a record [start, len]: the     *)
(* position of its first element and its length.  A reference to an array *)
(* [T; N] is a record [start, len, srcLen, prov]: len is N, srcLen is the  *)
(* length of the slice whose pointer was cast (a ghost field recording the *)
(* unchecked precondition), and prov is the provenance of the raw pointer  *)
(* that was cast ("ro" for a pointer obtained with as_ptr(), which is      *)
(* derived from a shared reborrow of the slice).                           *)
(***************************************************************************)
EXTENDS Integers, Sequences, FiniteSets, TLC

\* Longest buffer the caller owns.
MaxLen == 3
\* Array lengths handed to the macros range over 0..MaxN, so that a length
\* above every slice length occurs.
MaxN == MaxLen + 1
\* Cap on the number of successful scan calls on one cursor (N = 0 never
\* exhausts the cursor).
MaxCalls == 4
\* Cap on the number of writes through exclusive views in one run.
MaxWrites == 2

Sizes == 0 .. MaxN
\* Values written through exclusive views (100 and 200 in the tests).
Values == {100, 200}

\* Option<T>
None == [some |-> FALSE]
Some(x) == [some |-> TRUE, val |-> x]

\* No remainder slice / no array reference.
NoView == [start |-> 0, len |-> 0, none |-> TRUE]

\* A slice of the buffer: start position and length.
Slice(s, l) == [start |-> s, len |-> l]

\* A reference to an array of n elements at position s, cast from the
\* pointer (provenance p) of a slice of length sl.
ArrayRef(s, n, sl, p) == [start |-> s, len |-> n, srcLen |-> sl, prov |-> p]

\* Every sub-slice &buffer[a..b] of a buffer of length L.
Slices(L) == {v \in [start : 0 .. L, len : 0 .. L] : v.start + v.len <= L}

\* The elements a view covers, read from memory b.
Elems(b, v) == [i \in 1 .. v.len |-> b[v.start + i]]

VARIABLES
    buf,      \* the caller's buffer (the only memory)
    mode,     \* which borrows of buf are alive: "idle", "scan" or "mut"
    cursor,   \* the slice the scan cursor (&mut &[T]) currently holds
    cursor0,  \* the slice the cursor held when it was created
    taken,    \* elements of the arrays the successful scan calls returned
    scanN,    \* the size every scan call on this cursor used (NoSize, Mixed)
    okCount,  \* number of successful scan calls on this cursor
    failed,   \* some scan call on this cursor returned None
    held,     \* the exclusive views the caller holds: [fixed, rest]
    last,     \* the last call: [op, src, n, ret]
    wr,       \* the last write through a view of that call: [via, idx, val]
    bufPre,   \* the buffer before the last write through a view
    expect,   \* the buffer with each write applied at its own position
    writes    \* number of writes made

vars == <<buf, mode, cursor, cursor0, taken, scanN, okCount, failed, held,
          last, wr, bufPre, expect, writes>>

NoSize == 0 - 1
Mixed == 0 - 2

-----------------------------------------------------------------------------
(* The macros' inner functions, as operators on views.                      *)

\* <slice>::split_at(mid), called with mid <= source.len only (it panics
\* otherwise): the first mid elements and the rest.
split_at(source, mid) ==
    <<Slice(source.start, mid), Slice(source.start + mid, source.len - mid)>>

\* Mutant: the array covers the last n elements of the source.
slice_to_array_unchecked_suffix(source, n) ==
    ArrayRef(source.start + source.len - n, n, source.len, "ro")

\* &*(source.as_ptr() as *const [T; N]): no check of source.len.
slice_to_array_unchecked(source, n) ==
    ArrayRef(source.start, n, source.len, "ro")

\* &mut *(source.as_ptr() as *mut [T; N]): no check of source.len.  The
\* pointer comes from as_ptr(), which borrows the slice as shared, so it
\* carries read-only provenance although it is cast to *mut.
slice_to_array_mut_unchecked(source, n) ==
    ArrayRef(source.start, n, source.len, "ro")

\* Mutant: the bounds check is written <=, so an exact fit is refused.
slice_to_array_le(source, n) ==
    IF source.len <= n
    THEN None
    ELSE Some(slice_to_array_unchecked(source, n))

\* Mutant: the bounds check is written the wrong way round.
slice_to_array_gt(source, n) ==
    IF source.len > n
    THEN None
    ELSE Some(slice_to_array_unchecked(source, n))

slice_to_array(source, n) ==
    IF source.len < n
    THEN None
    ELSE Some(slice_to_array_unchecked(source, n))

slice_to_array_mut(source, n) ==
    IF source.len < n
    THEN None
    ELSE Some(slice_to_array_mut_unchecked(source, n))

\* Mutant: the whole source is returned as the remainder.
split_to_array_whole(source, n) ==
    IF source.len < n
    THEN None
    ELSE LET arr == split_at(source, n)[1]
         IN  Some([fixed |-> slice_to_array_unchecked(arr, n), rest |-> source])

split_to_array(source, n) ==
    IF source.len < n
    THEN None
    ELSE LET arr == split_at(source, n)[1]
             new_source == split_at(source, n)[2]
         IN  Some([fixed |-> slice_to_array_unchecked(arr, n),
                   rest |-> new_source])

split_to_array_mut(source, n) ==
    IF source.len < n
    THEN None
    ELSE LET arr == split_at(source, n)[1]
             new_source == split_at(source, n)[2]
         IN  Some([fixed |-> slice_to_array_mut_unchecked(arr, n),
                   rest |-> new_source])

\* Mutant: the cursor is not advanced.
split_to_array_scan_stay(source, n) ==
    LET r == split_to_array(source, n)
    IN  IF r.some
        THEN [ret |-> Some(r.val.fixed), source |-> source]
        ELSE [ret |-> None, source |-> source]

\* Mutant: the cursor is emptied when the split fails.
split_to_array_scan_clear(source, n) ==
    LET r == split_to_array(source, n)
    IN  IF r.some
        THEN [ret |-> Some(r.val.fixed), source |-> r.val.rest]
        ELSE [ret |-> None, source |-> Slice(source.start, 0)]

\* Mutant: the cursor is set to the consumed part, not to the remainder.
split_to_array_scan_head(source, n) ==
    LET r == split_to_array(source, n)
    IN  IF r.some
        THEN [ret |-> Some(r.val.fixed), source |-> Slice(source.start, n)]
        ELSE [ret |-> None, source |-> source]

\* Mutant: the cursor skips one element more than it returns.
split_to_array_scan_skip(source, n) ==
    LET r == split_to_array(source, n)
    IN  IF r.some
        THEN [ret |-> Some(r.val.fixed),
              source |-> IF r.val.rest.len > 0
                         THEN Slice(r.val.rest.start + 1, r.val.rest.len - 1)
                         ELSE r.val.rest]
        ELSE [ret |-> None, source |-> source]

\* split_to_array!(*source, N).map(|(target, source_new)| { *source =
\* source_new; target }): the value returned and the cursor afterwards.
split_to_array_scan(source, n) ==
    LET r == split_to_array(source, n)
    IN  IF r.some
        THEN [ret |-> Some(r.val.fixed), source |-> r.val.rest]
        ELSE [ret |-> None, source |-> source]

-----------------------------------------------------------------------------
(* The caller.  The views a call returns borrow the buffer; the caller     *)
(* drops them (Drop) before it borrows the buffer for another call.  The   *)
(* scan cursor is such a borrow too: it lives from NewCursor to Drop.      *)

NoHeld == [fixed |-> NoView, rest |-> NoView]
NoWrite == [via |-> "none", idx |-> 0, val |-> 0]
NoCursor == Slice(0, 0)

\* The record of a call: operation, source slice, size, value returned.
Call(op, src, n, ret) == [op |-> op, src |-> src, n |-> n, ret |-> ret]

\* The cursor's variables when no cursor is alive.
ScanReset ==
    /\ cursor' = NoCursor
    /\ cursor0' = NoCursor
    /\ taken' = <<>>
    /\ scanN' = NoSize
    /\ okCount' = 0
    /\ failed' = FALSE

\* No view of the buffer is alive.
Free == mode = "idle" /\ last.op = "none"

\* A call on a shared borrow of the buffer: nothing is held for writing.
ReadOnlyCall(c) ==
    /\ Free
    /\ last' = c
    /\ mode' = "idle"
    /\ held' = NoHeld
    /\ wr' = NoWrite
    /\ bufPre' = buf
    /\ expect' = buf
    /\ ScanReset
    /\ UNCHANGED <<buf, writes>>

\* A call on an exclusive borrow of the buffer: the caller holds the views
\* returned.
ExclusiveCall(c, h) ==
    /\ Free
    /\ last' = c
    /\ mode' = IF h = NoHeld THEN "idle" ELSE "mut"
    /\ held' = h
    /\ wr' = NoWrite
    /\ bufPre' = buf
    /\ expect' = buf
    /\ ScanReset
    /\ UNCHANGED <<buf, writes>>

Init ==
    /\ \E L \in 0 .. MaxLen : buf = [i \in 1 .. L |-> i]
    /\ mode = "idle"
    /\ cursor = NoCursor
    /\ cursor0 = NoCursor
    /\ taken = <<>>
    /\ scanN = NoSize
    /\ okCount = 0
    /\ failed = FALSE
    /\ held = NoHeld
    /\ last = Call("none", NoCursor, 0, None)
    /\ wr = NoWrite
    /\ bufPre = buf
    /\ expect = buf
    /\ writes = 0

\* unsafe { slice_to_array_unchecked!(&buf[a..b], N) }, called by the user:
\* no check is made, so the view may reach past the source.
Unchecked ==
    \E src \in Slices(Len(buf)), n \in Sizes :
        ReadOnlyCall(Call("slice_to_array_unchecked", src, n,
            Some([fixed |-> slice_to_array_unchecked(src, n), rest |-> NoView])))

\* unsafe { slice_to_array_mut_unchecked!(&mut buf[a..b], N) }, called by
\* the user.  The view is held for writing when it lies inside the source.
UncheckedMut ==
    \E src \in Slices(Len(buf)), n \in Sizes :
        LET a == slice_to_array_mut_unchecked(src, n)
        IN  ExclusiveCall(
                Call("slice_to_array_mut_unchecked", src, n,
                     Some([fixed |-> a, rest |-> NoView])),
                IF n <= src.len THEN [fixed |-> a, rest |-> NoView] ELSE NoHeld)

\* slice_to_array!(&buf[a..b], N)
Convert ==
    \E src \in Slices(Len(buf)), n \in Sizes :
        LET r == slice_to_array(src, n)
        IN  ReadOnlyCall(Call("slice_to_array", src, n,
                IF r.some THEN Some([fixed |-> r.val, rest |-> NoView]) ELSE None))

\* slice_to_array_mut!(&mut buf[a..b], N)
ConvertMut ==
    \E src \in Slices(Len(buf)), n \in Sizes :
        LET r == slice_to_array_mut(src, n)
        IN  ExclusiveCall(
                Call("slice_to_array_mut", src, n,
                     IF r.some THEN Some([fixed |-> r.val, rest |-> NoView])
                               ELSE None),
                IF r.some THEN [fixed |-> r.val, rest |-> NoView] ELSE NoHeld)

\* split_to_array!(&buf[a..b], N)
Split ==
    \E src \in Slices(Len(buf)), n \in Sizes :
        ReadOnlyCall(Call("split_to_array", src, n, split_to_array(src, n)))

\* split_to_array_mut!(&mut buf[a..b], N)
SplitMut ==
    \E src \in Slices(Len(buf)), n \in Sizes :
        LET r == split_to_array_mut(src, n)
        IN  ExclusiveCall(Call("split_to_array_mut", src, n, r),
                          IF r.some THEN r.val ELSE NoHeld)

\* let ref mut source_ref = &buf[a..b];
NewCursor ==
    \E src \in Slices(Len(buf)) :
        /\ Free
        /\ last' = Call("new_cursor", src, 0, None)
        /\ mode' = "scan"
        /\ cursor' = src
        /\ cursor0' = src
        /\ taken' = <<>>
        /\ scanN' = NoSize
        /\ okCount' = 0
        /\ failed' = FALSE
        /\ held' = NoHeld
        /\ wr' = NoWrite
        /\ bufPre' = buf
        /\ expect' = buf
        /\ UNCHANGED <<buf, writes>>

\* split_to_array_scan!(source_ref, N)
Scan ==
    \E n \in Sizes :
        LET r == split_to_array_scan(cursor, n)
        IN  /\ mode = "scan"
            /\ r.ret.some => okCount < MaxCalls
            /\ last' = Call("split_to_array_scan", cursor, n,
                            IF r.ret.some
                            THEN Some([fixed |-> r.ret.val, rest |-> NoView])
                            ELSE None)
            /\ cursor' = r.source
            /\ taken' = IF r.ret.some THEN taken \o Elems(buf, r.ret.val)
                                      ELSE taken
            /\ scanN' = IF scanN \in {NoSize, n} THEN n ELSE Mixed
            /\ okCount' = IF r.ret.some THEN okCount + 1 ELSE okCount
            /\ failed' = (failed \/ ~r.ret.some)
            /\ UNCHANGED <<buf, mode, cursor0, held, wr, bufPre, expect, writes>>

\* The views of the last call (and the cursor) go out of scope.
Drop ==
    /\ ~Free
    /\ last' = Call("none", NoCursor, 0, None)
    /\ mode' = "idle"
    /\ held' = NoHeld
    /\ wr' = NoWrite
    /\ bufPre' = buf
    /\ expect' = buf
    /\ ScanReset
    /\ UNCHANGED <<buf, writes>>

\* The memory after a store of v to position p.
Store(b, p, v) == [b EXCEPT ![p + 1] = v]

\* What a store through a pointer of provenance prov can leave in memory.
\* A store through a pointer derived from a shared borrow is undefined
\* behaviour: the build may perform it or may drop it.
StoreVia(prov, b, p, v) ==
    IF prov = "rw" THEN {Store(b, p, v)} ELSE {Store(b, p, v), b}

\* arr[i] = v, through the array reference of an exclusive call.
WriteFixed ==
    /\ mode = "mut"
    /\ writes < MaxWrites
    /\ \E i \in 0 .. held.fixed.len - 1, v \in Values :
        /\ buf' \in StoreVia(held.fixed.prov, buf, held.fixed.start + i, v)
        /\ expect' = Store(expect, held.fixed.start + i, v)
        /\ wr' = [via |-> "fixed", idx |-> i, val |-> v]
    /\ bufPre' = buf
    /\ writes' = writes + 1
    /\ UNCHANGED <<mode, cursor, cursor0, taken, scanN, okCount, failed, held, last>>

\* end[j] = v, through the remainder slice of split_to_array_mut.
WriteRest ==
    /\ mode = "mut"
    /\ writes < MaxWrites
    /\ \E j \in 0 .. held.rest.len - 1, v \in Values :
        /\ buf' = Store(buf, held.rest.start + j, v)
        /\ expect' = Store(expect, held.rest.start + j, v)
        /\ wr' = [via |-> "rest", idx |-> j, val |-> v]
    /\ bufPre' = buf
    /\ writes' = writes + 1
    /\ UNCHANGED <<mode, cursor, cursor0, taken, scanN, okCount, failed, held, last>>

Next ==
    \/ Unchecked
    \/ UncheckedMut
    \/ Convert
    \/ ConvertMut
    \/ Split
    \/ SplitMut
    \/ NewCursor
    \/ Scan
    \/ WriteFixed
    \/ WriteRest
    \/ Drop

Spec == Init /\ [][Next]_vars

-----------------------------------------------------------------------------
(* Properties.                                                              *)

Checked == {"slice_to_array", "slice_to_array_mut",
            "split_to_array", "split_to_array_mut"}
Scanned == last.op = "split_to_array_scan"

\* C1: slice_to_array, slice_to_array_mut, split_to_array and
\* split_to_array_mut on a source of length L with size N return Some iff
\* L >= N and None iff L < N (N = 0, L = 0 and L = N included).
C1_LengthBoundary ==
    last.op \in Checked =>
        /\ last.ret.some <=> last.src.len >= last.n
        /\ last.ret = None <=> last.src.len < last.n

\* slice_to_array succeeded on an exact fit of a non-empty source.
C1_Witness ==
    /\ last.op = "slice_to_array"
    /\ last.src.len = last.n
    /\ last.n > 0
    /\ last.ret.some

\* C2: the array a successful slice_to_array / slice_to_array_mut returns
\* has exactly N elements, and its element i is the source's element i for
\* every i < N, however much longer than N the source is.
C2_PrefixIdentity ==
    (last.op \in {"slice_to_array", "slice_to_array_mut"} /\ last.ret.some) =>
        /\ last.ret.val.fixed.len = last.n
        /\ Len(Elems(buf, last.ret.val.fixed)) = last.n
        /\ \A i \in 1 .. last.n :
               Elems(buf, last.ret.val.fixed)[i] = Elems(buf, last.src)[i]

\* slice_to_array succeeded on a source longer than N, away from the
\* buffer's start.
C2_Witness ==
    /\ last.op = "slice_to_array"
    /\ last.ret.some
    /\ last.n >= 1
    /\ last.src.len > last.n
    /\ last.src.start > 0

\* C3: a successful split_to_array / split_to_array_mut of a slice with
\* start S and length L gives an array over [S, S+N) and a remainder over
\* [S+N, S+L): lengths N and L - N, the array's end is the remainder's start,
\* the remainder's end is the source's end, and no position is in both.
C3_Partition ==
    (last.op \in {"split_to_array", "split_to_array_mut"} /\ last.ret.some) =>
        LET f == last.ret.val.fixed
            r == last.ret.val.rest
            S == last.src.start
            L == last.src.len
        IN  /\ f.start = S
            /\ f.len = last.n
            /\ r.start = S + last.n
            /\ r.len = L - last.n
            /\ f.start + f.len = r.start
            /\ f.len + r.len = L
            /\ (f.start .. f.start + f.len - 1)
                 \cap (r.start .. r.start + r.len - 1) = {}
            /\ (f.start .. f.start + f.len - 1)
                 \cup (r.start .. r.start + r.len - 1) = S .. S + L - 1

\* split_to_array succeeded with a non-empty array and a non-empty remainder
\* on a slice that does not start the buffer.
C3_Witness ==
    /\ last.op = "split_to_array"
    /\ last.ret.some
    /\ last.n >= 1
    /\ last.src.len > last.n
    /\ last.src.start > 0

\* C4: after a successful split_to_array_scan with size N on a cursor with
\* start S and length L, the cursor has start S + N and length L - N, and the
\* array returned is the N elements that were at [S, S+N).
C4_ScanAdvance ==
    (Scanned /\ last.ret.some) =>
        /\ cursor.start = last.src.start + last.n
        /\ cursor.len = last.src.len - last.n
        /\ last.ret.val.fixed.start = last.src.start
        /\ last.ret.val.fixed.len = last.n
        /\ Elems(buf, last.ret.val.fixed)
             = SubSeq(Elems(buf, last.src), 1, last.n)

\* A second successful scan call, taking a non-empty array and leaving a
\* non-empty cursor.
C4_Witness ==
    /\ Scanned
    /\ last.ret.some
    /\ last.n >= 1
    /\ last.src.start > cursor0.start
    /\ cursor.len > 0

\* C5: a split_to_array_scan call on a cursor shorter than N returns None
\* and leaves the cursor's start and length as they were.
C5_ScanFailureNoop ==
    (Scanned /\ last.src.len < last.n) =>
        /\ last.ret = None
        /\ cursor.start = last.src.start
        /\ cursor.len = last.src.len

\* A scan call failed on a cursor that had advanced and was not empty.
C5_Witness ==
    /\ Scanned
    /\ last.ret = None
    /\ okCount >= 1
    /\ last.src.len > 0
    /\ last.src.len < last.n

\* C6: after any sequence of scan calls of any sizes, the arrays the
\* successful calls returned, concatenated in call order and followed by
\* the elements the cursor still views, are the elements the cursor viewed
\* at first; failed calls contribute nothing.
C6_ScanPartition ==
    mode = "scan" => taken \o Elems(buf, cursor) = Elems(buf, cursor0)

\* Two successful calls of different sizes and a failed one, with elements
\* taken.
C6_Witness ==
    /\ mode = "scan"
    /\ okCount >= 2
    /\ failed
    /\ scanN = Mixed
    /\ Len(taken) >= 2

\* The position a write through the array reference is meant to change.
FixedPos == held.fixed.start + wr.idx

C9_UncheckedPrecondition ==
    ((last.op \in Checked \/ Scanned) /\ last.ret.some) =>
        LET f == last.ret.val.fixed
        IN  /\ f.srcLen >= f.len
            /\ f.len = last.n
            /\ f.start >= last.src.start
            /\ f.start + f.len <= last.src.start + last.src.len

\* slice_to_array_mut made an array reference that fills its source.
C9_Witness ==
    /\ last.op = "slice_to_array_mut"
    /\ last.ret.some
    /\ last.n >= 1
    /\ last.ret.val.fixed.srcLen = last.n

\* C10: scan calls that all use one size N >= 1 on a cursor of first length
\* L succeed floor(L / N) times and fail ever after, leaving L mod N
\* elements; with N = 0 every call succeeds and the cursor stays.  In any
\* sequence of calls the cursor never grows and its end never moves.
C10_ScanCount ==
    mode = "scan" =>
        /\ cursor.start + cursor.len = cursor0.start + cursor0.len
        /\ cursor.len <= cursor0.len
        /\ Scanned => cursor.len <= last.src.len
        /\ scanN >= 1 =>
               /\ okCount <= cursor0.len \div scanN
               /\ cursor.len = cursor0.len - scanN * okCount
               /\ failed => /\ okCount = cursor0.len \div scanN
                            /\ cursor.len = cursor0.len % scanN
        /\ scanN = 0 => ~failed /\ cursor = cursor0

\* Calls of one size N >= 2 succeeded, then one failed with elements left.
C10_Witness ==
    /\ mode = "scan"
    /\ scanN >= 2
    /\ okCount >= 1
    /\ failed
    /\ cursor.len > 0

====
